---- MODULE Spec2Model ----
(***************************************************************************)
(* The two screens of the business directory:                              *)
(*   - ListBusiness (the listing-submission form): the draft held in React *)
(*     state, its change handlers, and handleSubmit, whose body is split   *)
(*     at its awaits (logo upload, Promise.all of the product-image        *)
(*     uploads, insert) into one action per segment;                       *)
(*   - PopularBusinesses (the gallery): the mount effect, fetchBusinesses  *)
(*     and renderStars.                                                    *)
(* The backend (storage upload, insert, rpc) is the environment: every     *)
(* call that was issued may resolve with success or with an error.         *)
(*                                                                         *)
(* JavaScript values that may be null are tagged records (Null, Str, List) *)
(* so that "" and null and [] are three different values.                  *)
(* Date.now() in the upload paths is left out of the path records: no      *)
(* handler reads it back and the backend decides collisions on its own.    *)
(* The two components share no state: Spec is the form with its backend   *)
(* calls, GallerySpec the gallery with its remote query.                   *)
(* handleSubmit performs no validation itself; the native `required`       *)
(* attributes only narrow the drafts on which the submit event fires, so   *)
(* the submit action is enabled for every draft.                           *)
(***************************************************************************)
EXTENDS Integers, Sequences, FiniteSets, TLC

(* ------------------------------ bounds -------------------------------- *)
MaxInputs == 2        \* events from outside (edits, toggles, file choices, auth changes) per run
NumFiles == 4         \* files the file dialog can offer
MaxRows == 2          \* rows the remote query can return
MaxRating == 50       \* largest rating a row can carry, in tenths of a star

(* ------------------------------ values -------------------------------- *)
Null == [k |-> "null"]
Str(s) == [k |-> "str", v |-> s]
List(s) == [k |-> "list", v |-> s]

NoUser == "nobody"
Users == {"u1"}
NoFile == 0
Files == 1..NumFiles
Vals == {"", "x"}

BUSINESS_OPTIONS ==
  <<"Cash on Delivery", "Pickup In-Store", "Digital Payments", "Next-Day Delivery">>

RequiredFields ==
  {"name", "description", "category", "phone", "address", "city", "state", "zipCode"}

OptionalFields ==
  {"licenseExpiredDate", "website", "facebookPage", "tiktokUrl", "startingPrice",
   "productsCatalog"}

TextFields == RequiredFields \cup OptionalFields

EmptyFormData ==
  [name |-> "", description |-> "", category |-> "", phone |-> "",
   licenseExpiredDate |-> "", address |-> "", city |-> "", state |-> "",
   zipCode |-> "", website |-> "", facebookPage |-> "", tiktokUrl |-> "",
   startingPrice |-> "", options |-> <<>>, productsCatalog |-> ""]

Range(s) == {s[i] : i \in 1..Len(s)}

RECURSIVE Filter(_, _)
Filter(s, o) ==
  IF s = <<>> THEN <<>>
  ELSE IF Head(s) # o THEN <<Head(s)>> \o Filter(Tail(s), o)
       ELSE Filter(Tail(s), o)

Includes(s, o) == o \in Range(s)

Slice3(s) == SubSeq(s, 1, IF Len(s) < 3 THEN Len(s) ELSE 3)

\* the selections the file dialog can hand over: none, or a run of the offered
\* files that starts at the first or ends at the last
Offered == [i \in 1..NumFiles |-> i]
Selections ==
  {<<>>} \cup {SubSeq(Offered, 1, b) : b \in 1..NumFiles}
         \cup {SubSeq(Offered, a, NumFiles) : a \in 1..NumFiles}

\* the logo input is not `multiple`: the dialog hands over no file or one
LogoChoices == {<<>>} \cup {<<f>> : f \in {1, NumFiles}}

(* storage paths and public URLs *)
LogoPath(uid, f) == [dir |-> "logos", uid |-> uid, name |-> f]
ProductPath(uid, index, f) == [dir |-> "products", uid |-> uid, index |-> index, name |-> f]
PublicUrl(path) == [publicUrl |-> path]
EmptyUrl == [publicUrl |-> [dir |-> ""]]
Pending == [pending |-> TRUE]

OrNull(s) == IF s = "" THEN Null ELSE Str(s)

\* city and state exchanged
InsertRowSwapped(u, fd, lu, ius) ==
  [owner_id |-> Str(u),
   name |-> Str(fd.name),
   description |-> Str(fd.description),
   category |-> Str(fd.category),
   phone |-> Str(fd.phone),
   address |-> Str(fd.address),
   city |-> Str(fd.state),
   state |-> Str(fd.city),
   zip_code |-> Str(fd.zipCode),
   website |-> Str(fd.website),
   image_url |-> IF lu = EmptyUrl THEN Null ELSE Str(lu),
   facebook_page |-> OrNull(fd.facebookPage),
   tiktok_url |-> OrNull(fd.tiktokUrl),
   starting_price |-> OrNull(fd.startingPrice),
   business_options |-> IF Len(fd.options) > 0 THEN List(fd.options) ELSE Null,
   products_catalog |-> OrNull(fd.productsCatalog),
   license_expired_date |-> OrNull(fd.licenseExpiredDate),
   product_images |-> IF Len(ius) > 0 THEN List(ius) ELSE Null]

InsertRow(u, fd, lu, ius) ==
  [owner_id |-> Str(u),
   name |-> Str(fd.name),
   description |-> Str(fd.description),
   category |-> Str(fd.category),
   phone |-> Str(fd.phone),
   address |-> Str(fd.address),
   city |-> Str(fd.city),
   state |-> Str(fd.state),
   zip_code |-> Str(fd.zipCode),
   website |-> Str(fd.website),
   image_url |-> IF lu = EmptyUrl THEN Null ELSE Str(lu),
   facebook_page |-> OrNull(fd.facebookPage),
   tiktok_url |-> OrNull(fd.tiktokUrl),
   starting_price |-> OrNull(fd.startingPrice),
   business_options |-> IF Len(fd.options) > 0 THEN List(fd.options) ELSE Null,
   products_catalog |-> OrNull(fd.productsCatalog),
   license_expired_date |-> OrNull(fd.licenseExpiredDate),
   product_images |-> IF Len(ius) > 0 THEN List(ius) ELSE Null]

(* ------------------------------ state --------------------------------- *)
VARIABLES
  user,           \* identity reported by useAuth, or NoUser
  loading,        \* the busy flag of the form
  logoFile,       \* selected logo, or NoFile
  productImages,  \* selected product images, in selection order
  formData,       \* the text fields and the option list
  boxes,          \* the options whose checkbox last handed `true` to onCheckedChange
  picked,         \* the files the product-image dialog handed over last
  location,       \* the screen the router shows
  pc,             \* position of the running handleSubmit
  cap,            \* what the running handleSubmit closed over
  logoUrl,        \* local of handleSubmit
  imageResults,   \* per product image of the attempt, its URL or Pending
  inflight,       \* backend calls issued and not yet resolved
  calls,          \* backend calls issued by the current attempt, in order
  effects,        \* toasts and navigations of the current attempt, in order
  settled,        \* the awaited call that resolved last in the current attempt
  inputs,         \* number of input events so far
  businesses,     \* gallery: the list state
  galleryLoading, \* gallery: the loading flag
  gpc,            \* gallery: position of the mount effect / fetchBusinesses
  rpcCalls,       \* gallery: calls of get_public_businesses issued
  thrown,         \* gallery: an exception left fetchBusinesses
  response        \* gallery: what the rpc resolved with

formVars ==
  <<user, loading, logoFile, productImages, formData, boxes, picked, location, pc,
    cap, logoUrl, imageResults, inflight, calls, effects, settled, inputs>>

galleryVars == <<businesses, galleryLoading, gpc, rpcCalls, thrown, response>>

vars == <<formVars, galleryVars>>

NoneSettled == [op |-> "none", idx |-> 0, error |-> FALSE, message |-> ""]

NoResponse == [kind |-> "none", rows |-> <<>>]

NoCap ==
  [user |-> NoUser, formData |-> EmptyFormData, logoFile |-> NoFile,
   productImages |-> <<>>, boxes |-> {}]

FormInit ==
  /\ user \in Users \cup {NoUser}
  /\ loading = FALSE
  /\ logoFile = NoFile
  /\ productImages = <<>>
  /\ formData = EmptyFormData
  /\ boxes = {}
  /\ picked = <<>>
  /\ location = "form"
  /\ pc = "Idle"
  /\ cap = NoCap
  /\ logoUrl = EmptyUrl
  /\ imageResults = <<>>
  /\ inflight = {}
  /\ calls = <<>>
  /\ effects = <<>>
  /\ settled = NoneSettled
  /\ inputs = 0

GalleryInit ==
  /\ businesses = <<>>
  /\ galleryLoading = TRUE
  /\ gpc = "mounted"
  /\ rpcCalls = 0
  /\ thrown = FALSE
  /\ response = NoResponse

Init == FormInit /\ GalleryInit

(* --------------------------- the form: inputs -------------------------- *)
OnForm == location = "form" /\ inputs < MaxInputs

\* useAuth reports another identity (sign-in, sign-out, expiry of the session)
AuthChange(u) ==
  /\ inputs < MaxInputs
  /\ u # user
  /\ user' = u
  /\ inputs' = inputs + 1
  /\ UNCHANGED <<loading, logoFile, productImages, formData, boxes, picked, location, pc,
                 cap, logoUrl, imageResults, inflight, calls, effects, settled>>
  /\ UNCHANGED galleryVars

\* onChange fires when the typed value differs from the one shown
handleInputChange(field, value) ==
  /\ OnForm
  /\ value # formData[field]
  /\ formData' = [formData EXCEPT ![field] = value]
  /\ inputs' = inputs + 1
  /\ UNCHANGED <<user, loading, logoFile, productImages, boxes, picked, location, pc,
                 cap, logoUrl, imageResults, inflight, calls, effects, settled>>
  /\ UNCHANGED galleryVars

\* unchecking removes nothing
OptionsAfterKeep(options, option, checked) ==
  IF checked THEN Append(options, option) ELSE options

OptionsAfter(options, option, checked) ==
  IF checked THEN Append(options, option) ELSE Filter(options, option)

\* the checkbox of `option` is clicked: it shows options.includes(option) and
\* hands the opposite to onCheckedChange
handleOptionChange(option) ==
  LET checked == ~Includes(formData.options, option) IN
  /\ OnForm
  /\ formData' = [formData EXCEPT !.options = OptionsAfter(@, option, checked)]
  /\ boxes' = IF checked THEN boxes \cup {option} ELSE boxes \ {option}
  /\ inputs' = inputs + 1
  /\ UNCHANGED <<user, loading, logoFile, productImages, picked, location, pc,
                 cap, logoUrl, imageResults, inflight, calls, effects, settled>>
  /\ UNCHANGED galleryVars

handleLogoChange(files) ==
  /\ OnForm
  /\ logoFile' = IF Len(files) > 0 THEN files[1] ELSE logoFile
  /\ inputs' = inputs + 1
  /\ UNCHANGED <<user, loading, productImages, formData, boxes, picked, location, pc,
                 cap, logoUrl, imageResults, inflight, calls, effects, settled>>
  /\ UNCHANGED galleryVars

\* the new files are appended to the old selection
ImagesAfterAppend(old, files) == Slice3(old \o files)

ImagesAfter(old, files) == Slice3(files)

handleProductImagesChange(files) ==
  /\ OnForm
  /\ productImages' = ImagesAfter(productImages, files)
  /\ picked' = files
  /\ inputs' = inputs + 1
  /\ UNCHANGED <<user, loading, logoFile, formData, boxes, location, pc,
                 cap, logoUrl, imageResults, inflight, calls, effects, settled>>
  /\ UNCHANGED galleryVars

(* ------------------------- the form: handleSubmit ---------------------- *)
Outcomes ==
  {[error |-> FALSE, message |-> ""],
   [error |-> TRUE, message |-> ""],
   [error |-> TRUE, message |-> "rejected by the backend"]}

Toast(title, description, variant) ==
  [kind |-> "toast", title |-> title, description |-> description, variant |-> variant]
Navigate(to) == [kind |-> "navigate", to |-> to]

AuthToast ==
  Toast("Authentication Required", "Please sign in to list your business.", "destructive")
SuccessToast ==
  Toast("Success!", "Your business has been listed successfully.", "default")
\* the toast without the `||` fallback of line 194
ErrorToastNoFallback(err) == Toast("Error", err.message, "destructive")

ErrorToast(err) ==
  Toast("Error",
        IF err.message # "" THEN err.message
        ELSE "Failed to list business. Please try again.",
        "destructive")

UploadCall(path, f) ==
  [op |-> "upload", bucket |-> "business-assets", path |-> path, file |-> f,
   upsert |-> FALSE]
InsertCall(row) == [op |-> "insert", table |-> "businesses", row |-> row]

\* the payload read from the current state instead of the handler's closure
IssueInsertLive(c, lu, ius, fl, log) ==
  /\ pc' = "AwaitInsert"
  /\ calls' = Append(log, InsertCall(InsertRow(user, formData, lu, ius)))
  /\ inflight' = fl \cup {[op |-> "insert", idx |-> 0, path |-> Null, orphan |-> FALSE]}

\* lines 158-180: the insert is issued and awaited
IssueInsert(c, lu, ius, fl, log) ==
  /\ pc' = "AwaitInsert"
  /\ calls' = Append(log, InsertCall(InsertRow(c.user, c.formData, lu, ius)))
  /\ inflight' = fl \cup {[op |-> "insert", idx |-> 0, path |-> Null, orphan |-> FALSE]}

\* lines 149-156: one uploadFile per product image, all issued by the map,
\* then Promise.all is awaited
UploadProducts(c, fl, log) ==
  LET n == Len(c.productImages)
      path(i) == ProductPath(c.user, i - 1, c.productImages[i])
  IN /\ pc' = "AwaitImages"
     /\ imageResults' = [i \in 1..n |-> Pending]
     /\ calls' = log \o [i \in 1..n |-> UploadCall(path(i), c.productImages[i])]
     /\ inflight' = fl \cup {[op |-> "image", idx |-> i, path |-> path(i), orphan |-> FALSE] :
                              i \in 1..n}

HasProductsOffByOne(c) == Len(c.productImages) > 1

HasProducts(c) == Len(c.productImages) > 0

\* lines 149-180, entered with the logo step done or skipped
AfterLogo(c, lu, fl, log) ==
  /\ logoUrl' = lu
  /\ IF HasProducts(c)
       THEN UploadProducts(c, fl, log)
       ELSE /\ imageResults' = <<>>
            /\ IssueInsert(c, lu, <<>>, fl, log)

\* lines 143-147
UploadLogo(c, fl) ==
  LET path == LogoPath(c.user, c.logoFile) IN
  /\ pc' = "AwaitLogo"
  /\ logoUrl' = EmptyUrl
  /\ imageResults' = <<>>
  /\ calls' = <<UploadCall(path, c.logoFile)>>
  /\ inflight' = fl \cup {[op |-> "logo", idx |-> 0, path |-> path, orphan |-> FALSE]}

\* the branch without its `return`: the handler runs on into the try block,
\* where reading user.id throws
BlockedNoReturn ==
  /\ pc' = "Failed"
  /\ effects' = <<AuthToast, Navigate("/auth/signin"),
                  ErrorToast([message |-> "Cannot read properties of null"])>>
  /\ location' = "/auth/signin"
  /\ calls' = <<>>
  /\ UNCHANGED <<loading, logoUrl, imageResults, inflight>>

\* lines 127-135
Blocked ==
  /\ pc' = "Blocked"
  /\ effects' = <<AuthToast, Navigate("/auth/signin")>>
  /\ location' = "/auth/signin"
  /\ calls' = <<>>
  /\ UNCHANGED <<loading, logoUrl, imageResults, inflight>>

\* line 504: the submit control is disabled while the busy flag is up.  The
\* form's markup is rendered only while useAuth reports an identity (lines
\* 213-226); handleSubmit keeps its own guard for the other case (lines
\* 127-135), and the submit event is enabled here whatever useAuth reports, so
\* that the guard's branch is part of the behaviours.
\* the submit control without its `disabled` attribute
SubmitEnabledWhileBusy == location = "form"

SubmitEnabled == location = "form" /\ ~loading

\* the submit event: handleSubmit up to its first await
handleSubmit ==
  LET c == [user |-> user, formData |-> formData, logoFile |-> logoFile,
            productImages |-> productImages, boxes |-> boxes]
  IN /\ SubmitEnabled
     /\ cap' = c
     /\ IF user = NoUser
          THEN Blocked
          ELSE /\ loading' = TRUE
               /\ effects' = <<>>
               /\ UNCHANGED location
               /\ IF logoFile # NoFile
                    THEN UploadLogo(c, inflight)
                    ELSE AfterLogo(c, EmptyUrl, inflight, <<>>)
     /\ settled' = NoneSettled
     /\ UNCHANGED <<user, logoFile, productImages, formData, boxes, picked, inputs>>
     /\ UNCHANGED galleryVars

\* the catch without the finally block of lines 197-199
CatchNoFinally(err) ==
  /\ pc' = "Failed"
  /\ effects' = Append(effects, ErrorToast(err))
  /\ UNCHANGED <<loading, location>>

\* lines 190-199: catch and finally
Catch(err) ==
  /\ pc' = "Failed"
  /\ effects' = Append(effects, ErrorToast(err))
  /\ loading' = FALSE
  /\ UNCHANGED location

\* lines 184-189 and 197-199
Succeed ==
  /\ pc' = "Succeeded"
  /\ effects' = effects \o <<SuccessToast, Navigate("/dashboard")>>
  /\ location' = "/dashboard"
  /\ loading' = FALSE

\* the calls whose promise the running handleSubmit still waits for
Awaited(call) == ~call.orphan

\* the promises nobody waits for any more once the handler has left its try block
Orphaned(fl) == {[c EXCEPT !.orphan = TRUE, !.path = Null] : c \in fl}

\* results pushed to the list as the uploads complete
SettleInArrivalOrder(results, i, url) ==
  LET j == CHOOSE j \in 1..Len(results) :
             results[j] = Pending /\ \A k \in 1..(j - 1) : results[k] # Pending
  IN [results EXCEPT ![j] = url]

\* Promise.all keeps each result at the index of its promise
Settle(results, i, url) == [results EXCEPT ![i] = url]

AllSettled(results) == \A i \in 1..Len(results) : results[i] # Pending

\* the logo upload of the running attempt resolves (lines 107-122, 146)
ResolveLogo(call, out) ==
  /\ call \in inflight /\ call.op = "logo" /\ Awaited(call)
  /\ IF out.error
       THEN /\ Catch(out)
            /\ inflight' = Orphaned(inflight \ {call})
            /\ UNCHANGED <<logoUrl, imageResults, calls>>
       ELSE /\ AfterLogo(cap, PublicUrl(call.path), inflight \ {call}, calls)
            /\ UNCHANGED <<loading, effects, location>>
  /\ settled' = [op |-> call.op, idx |-> call.idx, error |-> out.error,
                  message |-> out.message]
  /\ UNCHANGED <<user, logoFile, productImages, formData, boxes, picked, cap, inputs>>
  /\ UNCHANGED galleryVars

\* the join waits for every upload and keeps going past a failed one
ResolveImageAllSettled(call, out) ==
  /\ call \in inflight /\ call.op = "image" /\ Awaited(call)
  /\ LET results == Settle(imageResults, call.idx,
                           IF out.error THEN Null ELSE PublicUrl(call.path)) IN
       /\ imageResults' = results
       /\ IF AllSettled(results)
            THEN IssueInsert(cap, logoUrl, results, inflight \ {call}, calls)
            ELSE /\ inflight' = inflight \ {call}
                 /\ UNCHANGED <<pc, calls>>
       /\ UNCHANGED <<loading, effects, location, logoUrl>>
  /\ settled' = [op |-> call.op, idx |-> call.idx, error |-> out.error,
                  message |-> out.message]
  /\ UNCHANGED <<user, logoFile, productImages, formData, boxes, picked, cap, inputs>>
  /\ UNCHANGED galleryVars

\* a product-image upload of the running attempt resolves (lines 107-122, 155)
ResolveImage(call, out) ==
  /\ call \in inflight /\ call.op = "image" /\ Awaited(call)
  /\ IF out.error
       THEN /\ Catch(out)
            /\ inflight' = Orphaned(inflight \ {call})
            /\ UNCHANGED <<logoUrl, imageResults, calls>>
       ELSE LET results == Settle(imageResults, call.idx, PublicUrl(call.path)) IN
            /\ imageResults' = results
            /\ IF AllSettled(results)
                 THEN IssueInsert(cap, logoUrl, results, inflight \ {call}, calls)
                 ELSE /\ inflight' = inflight \ {call}
                      /\ UNCHANGED <<pc, calls>>
            /\ UNCHANGED <<loading, effects, location, logoUrl>>
  /\ settled' = [op |-> call.op, idx |-> call.idx, error |-> out.error,
                  message |-> out.message]
  /\ UNCHANGED <<user, logoFile, productImages, formData, boxes, picked, cap, inputs>>
  /\ UNCHANGED galleryVars

\* the insert's error is not rethrown
ResolveInsertIgnoresError(call, out) ==
  /\ call \in inflight /\ call.op = "insert" /\ Awaited(call)
  /\ Succeed
  /\ inflight' = inflight \ {call}
  /\ UNCHANGED <<logoUrl, imageResults, calls>>
  /\ settled' = [op |-> call.op, idx |-> call.idx, error |-> out.error,
                  message |-> out.message]
  /\ UNCHANGED <<user, logoFile, productImages, formData, boxes, picked, cap, inputs>>
  /\ UNCHANGED galleryVars

\* the insert of the running attempt resolves (lines 159-189)
ResolveInsert(call, out) ==
  /\ call \in inflight /\ call.op = "insert" /\ Awaited(call)
  /\ IF out.error THEN Catch(out) ELSE Succeed
  /\ inflight' = inflight \ {call}
  /\ UNCHANGED <<logoUrl, imageResults, calls>>
  /\ settled' = [op |-> call.op, idx |-> call.idx, error |-> out.error,
                  message |-> out.message]
  /\ UNCHANGED <<user, logoFile, productImages, formData, boxes, picked, cap, inputs>>
  /\ UNCHANGED galleryVars

\* an upload whose Promise.all was already rejected resolves: nobody reads it
ResolveOrphan(call) ==
  /\ call \in inflight /\ ~Awaited(call)
  /\ inflight' = inflight \ {call}
  /\ UNCHANGED <<user, loading, logoFile, productImages, formData, boxes, location, pc,
                 cap, logoUrl, imageResults, calls, effects, settled, picked, inputs>>
  /\ UNCHANGED galleryVars

FormNext ==
  \/ \E u \in Users \cup {NoUser} : AuthChange(u)
  \/ \E field \in TextFields, value \in Vals : handleInputChange(field, value)
  \/ \E option \in Range(BUSINESS_OPTIONS) : handleOptionChange(option)
  \/ \E files \in LogoChoices : handleLogoChange(files)
  \/ \E files \in Selections : handleProductImagesChange(files)
  \/ handleSubmit
  \/ \E call \in inflight, out \in Outcomes : ResolveLogo(call, out)
  \/ \E call \in inflight, out \in Outcomes : ResolveImage(call, out)
  \/ \E call \in inflight, out \in Outcomes : ResolveInsert(call, out)
  \/ \E call \in inflight : ResolveOrphan(call)

Spec == Init /\ [][FormNext]_vars

\* a call the running handler waits for resolves (the awaits of lines 146, 155
\* and 159-180)
ResolveAwaited ==
  \E call \in inflight, out \in Outcomes :
    ResolveLogo(call, out) \/ ResolveImage(call, out) \/ ResolveInsert(call, out)

\* the events that handleSubmit's control flow depends on: it branches on the
\* identity, the logo and the product images only (lines 127, 143, 150), so
\* the edits of text fields and options are left out here
ControlNext ==
  \/ \E u \in Users \cup {NoUser} : AuthChange(u)
  \/ \E files \in LogoChoices : handleLogoChange(files)
  \/ \E files \in Selections : handleProductImagesChange(files)
  \/ handleSubmit
  \/ ResolveAwaited
  \/ \E call \in inflight : ResolveOrphan(call)

\* the form with a backend that answers every call it was sent: a call in
\* flight is not left unresolved for ever
FairSpec ==
  /\ Init /\ [][ControlNext]_vars
  /\ WF_vars(ResolveAwaited)
  /\ WF_vars(\E call \in inflight : ResolveOrphan(call))

(* ------------------------------ the gallery ---------------------------- *)
Stars == 5

Ratings == 0..MaxRating

\* what get_public_businesses can hand back: rows in the backend's order, each
\* with its rating in tenths of a star
Rows(r) == [i \in 1..Len(r) |-> [id |-> i, rating |-> r[i]]]

\* the rpc resolves with { data, error: null }, with { data: null, error },
\* with neither, or it throws
DataResponse(rows) == [kind |-> "data", rows |-> rows]
Failures ==
  {[kind |-> "error", rows |-> <<>>], [kind |-> "throw", rows |-> <<>>],
   [kind |-> "null", rows |-> <<>>]}


\* useEffect without the dependency list: the effect runs after every render
EffectRunsEveryRender(p, n) == p \in {"mounted", "done"} /\ n < 3

\* useEffect(..., []): the effect runs after the first render only
EffectRuns(p, n) == p = "mounted"

\* lines 24-30: the mount effect calls fetchBusinesses, which issues the rpc
MountEffect ==
  /\ EffectRuns(gpc, rpcCalls)
  /\ gpc' = "AwaitRpc"
  /\ rpcCalls' = rpcCalls + 1
  /\ UNCHANGED <<businesses, galleryLoading, thrown, response>>
  /\ UNCHANGED formVars

\* setLoading(false) after the try block instead of in `finally`: the early
\* return of the error branch skips it
FetchSettledNoFinally(prev, resp) ==
  [businesses |-> IF resp.kind = "data" THEN resp.rows ELSE prev,
   loading |-> resp.kind = "error",
   thrown |-> FALSE]

\* lines 30-44: what fetchBusinesses leaves behind once the rpc has resolved
FetchSettled(prev, resp) ==
  [businesses |-> IF resp.kind = "data" THEN resp.rows ELSE prev,
   loading |-> FALSE,
   thrown |-> FALSE]

FetchResolve(resp) ==
  LET after == FetchSettled(businesses, resp) IN
  /\ gpc = "AwaitRpc"
  /\ gpc' = "done"
  /\ response' = resp
  /\ businesses' = after.businesses
  /\ galleryLoading' = after.loading
  /\ thrown' = after.thrown
  /\ UNCHANGED rpcCalls
  /\ UNCHANGED formVars

\* lines 47-56: position index (0-based) is filled when index < rating
renderStars(rating) == [i \in 1..Stars |-> (i - 1) * 10 < rating]

Filled(row) == Cardinality({i \in 1..Len(row) : row[i]})
Unfilled(row) == Cardinality({i \in 1..Len(row) : ~row[i]})

\* lines 58-172: the loading text, or one card per business
Cards ==
  IF galleryLoading THEN <<>>
  ELSE [b \in 1..Len(businesses) |->
          [id |-> businesses[b].id, stars |-> renderStars(businesses[b].rating)]]

GalleryNext ==
  \/ MountEffect
  \/ gpc = "AwaitRpc" /\ \E resp \in Failures : FetchResolve(resp)
  \/ gpc = "AwaitRpc" /\ \E n \in 0..MaxRows : \E r \in [1..n -> Ratings] :
                           FetchResolve(DataResponse(Rows(r)))

GallerySpec == Init /\ [][GalleryNext]_vars

(* ------------------------------ the claims ----------------------------- *)
\* what an observer of the backend reads off the calls of an attempt
NumUploads(log) == Cardinality({i \in 1..Len(log) : log[i].op = "upload"})
NumInserts(log) == Cardinality({i \in 1..Len(log) : log[i].op = "insert"})
InsertRows(log) == {log[i].row : i \in {j \in 1..Len(log) : log[j].op = "insert"}}
Started == pc # "Idle"
Authenticated == Started /\ cap.user # NoUser

\* the payload key under which lines 163-178 send a field of the draft
Column(f) ==
  CASE f = "licenseExpiredDate" -> "license_expired_date"
    [] f = "website" -> "website"
    [] f = "facebookPage" -> "facebook_page"
    [] f = "tiktokUrl" -> "tiktok_url"
    [] f = "startingPrice" -> "starting_price"
    [] f = "productsCatalog" -> "products_catalog"
    [] f = "zipCode" -> "zip_code"
    [] OTHER -> f

\* C1: an attempt whose submit event found no identity is Blocked: it issued no
\* backend call, showed the sign-in toast, went to the sign-in screen (not the
\* dashboard) and never raised the busy flag; and only such attempts are Blocked.
C1_BlockedWithoutIdentity ==
  /\ (Started /\ cap.user = NoUser) =>
       /\ pc = "Blocked"
       /\ calls = <<>>
       /\ effects = <<AuthToast, Navigate("/auth/signin")>>
       /\ location = "/auth/signin"
       /\ ~loading
  /\ pc = "Blocked" => cap.user = NoUser

C1_Witness == pc = "Blocked" /\ cap.logoFile # NoFile /\ inflight = {}

\* C2: in an authenticated attempt with a logo and N product images, the first
\* call is the logo upload and it is the only call while the logo upload is
\* unresolved or once it has failed (then the attempt is Failed and no insert
\* was issued); once the logo upload has succeeded exactly 1 + N upload calls
\* have been issued.
C2_UploadCalls ==
  (Authenticated /\ cap.logoFile # NoFile) =>
    LET N == Len(cap.productImages) IN
    /\ N <= 3
    /\ Len(calls) >= 1
    /\ calls[1] = UploadCall(LogoPath(cap.user, cap.logoFile), cap.logoFile)
    /\ pc = "AwaitLogo" => Len(calls) = 1
    /\ (settled.op = "logo" /\ settled.error) =>
         pc = "Failed" /\ Len(calls) = 1 /\ NumInserts(calls) = 0
    /\ logoUrl = EmptyUrl => Len(calls) = 1 /\ pc \in {"AwaitLogo", "Failed"}
    /\ logoUrl # EmptyUrl =>
         /\ NumUploads(calls) = 1 + N
         /\ \A i \in 1..N :
              calls[1 + i] = UploadCall(ProductPath(cap.user, i - 1, cap.productImages[i]),
                                        cap.productImages[i])

C2_Witness ==
  /\ pc = "Succeeded" /\ cap.logoFile # NoFile
  /\ Len(cap.productImages) = 3 /\ NumUploads(calls) = 4

\* C3: an authenticated attempt on a draft without logo and product images
\* issues one backend call, the insert, whose image_url and product_images are
\* null and whose required fields are the draft's values.
C3_InsertOnly ==
  (Authenticated /\ cap.logoFile = NoFile /\ cap.productImages = <<>>) =>
    /\ Len(calls) = 1
    /\ calls[1].op = "insert"
    /\ calls[1].row.image_url = Null
    /\ calls[1].row.product_images = Null
    /\ \A f \in RequiredFields : calls[1].row[Column(f)] = Str(cap.formData[f])

C3_Witness ==
  /\ pc = "Succeeded" /\ cap.logoFile = NoFile /\ cap.productImages = <<>>
  /\ cap.formData.city = "x" /\ cap.formData.state = ""

\* C4: every optional text field that is "" at submission is null in the
\* insert payload.
C4_EmptyOptionalIsNull ==
  \A row \in InsertRows(calls) : \A f \in OptionalFields :
    cap.formData[f] = "" => row[Column(f)] = Null

\* C5: the option list of the draft holds exactly the checked options, each
\* once, and business_options of the insert payload is null when none was
\* checked at submission and else holds exactly the options checked then.
C5_CheckedOptions ==
  /\ Range(formData.options) = boxes
  /\ Len(formData.options) = Cardinality(boxes)
  /\ \A row \in InsertRows(calls) :
       IF cap.boxes = {}
         THEN row.business_options = Null
         ELSE /\ row.business_options # Null
              /\ Range(row.business_options.v) = cap.boxes
              /\ Len(row.business_options.v) = Cardinality(cap.boxes)

C5_Witness ==
  /\ NumInserts(calls) = 1
  /\ Cardinality(cap.boxes) = 2
  /\ cap.formData.options[1] = BUSINESS_OPTIONS[2]

\* C6: the star row of every card shows floor(rating) filled stars and
\* 5 - floor(rating) unfilled ones (ratings are in tenths).
C6_FilledIsFloor ==
  \A b \in 1..Len(Cards) :
    /\ Filled(Cards[b].stars) = businesses[b].rating \div 10
    /\ Unfilled(Cards[b].stars) = 5 - (businesses[b].rating \div 10)

\* C7: when the fetch fails (error returned, or the call throws) the list keeps
\* its prior value, empty on this first load, nothing is thrown out of
\* fetchBusinesses, the loading flag is cleared and no card is rendered.
C7_FetchFailure ==
  response.kind \in {"error", "throw"} =>
    /\ businesses = <<>>
    /\ ~thrown
    /\ ~galleryLoading
    /\ Cards = <<>>

C7_Witness == gpc = "done" /\ response.kind = "throw" /\ ~galleryLoading

\* C8: the product-image list is the first three (or fewer) of the files handed
\* over by the latest selection, in their order: never more than three, and
\* nothing of an earlier selection.
C8_FirstThree ==
  /\ Len(productImages) <= 3
  /\ Len(productImages) = (IF Len(picked) > 3 THEN 3 ELSE Len(picked))
  /\ \A i \in 1..Len(productImages) : productImages[i] = picked[i]

C8_Witness == Len(picked) > 3 /\ Len(productImages) = 3 /\ productImages[3] = picked[3]

\* C9: a mounted gallery has issued no call of get_public_businesses before its
\* mount effect ran and exactly one from then on, whatever the call resolved
\* with and whatever state it set.
C9_OneFetch ==
  /\ gpc = "mounted" => rpcCalls = 0
  /\ gpc \in {"AwaitRpc", "done"} => rpcCalls = 1
  /\ gpc \in {"mounted", "AwaitRpc", "done"}

C9_Witness == gpc = "done" /\ rpcCalls = 1 /\ Len(businesses) > 0 /\ ~galleryLoading

\* C10: an attempt is Succeeded exactly when its insert was accepted; then the
\* success toast and the navigation to the dashboard are its effects, in that
\* order; the dashboard is reached in no other attempt.
C10_SucceededIffAccepted ==
  /\ pc = "Succeeded" <=> (Started /\ settled.op = "insert" /\ ~settled.error)
  /\ pc = "Succeeded" =>
       /\ effects = <<SuccessToast, Navigate("/dashboard")>>
       /\ NumInserts(calls) = 1
       /\ calls[Len(calls)].op = "insert"
  /\ (location = "/dashboard" \/ Navigate("/dashboard") \in Range(effects)) =>
       pc = "Succeeded"

C10_Witness ==
  /\ pc = "Succeeded" /\ location = "/dashboard" /\ NumUploads(calls) = 2

InFlight == {"AwaitLogo", "AwaitImages", "AwaitInsert"}
Terminal == {"Blocked", "Succeeded", "Failed"}
ImageFailed == settled.op = "image" /\ settled.error
LogoCount == IF cap.logoFile # NoFile THEN 1 ELSE 0

\* C11, the states: while the product images are awaited every one of their
\* uploads has been issued, whether or not any has resolved, and each one not
\* yet resolved is in flight; once one of them has failed the attempt is
\* Failed, its log holds all the uploads, no insert and no call of any other
\* kind (nothing is deleted), and nothing is awaited any more.
C11_Joined ==
  /\ pc = "AwaitImages" =>
       /\ Len(imageResults) = Len(cap.productImages)
       /\ NumUploads(calls) = LogoCount + Len(cap.productImages)
       /\ \A i \in 1..Len(imageResults) :
            imageResults[i] = Pending =>
              \E c \in inflight : c.op = "image" /\ c.idx = i /\ ~c.orphan
  /\ ImageFailed =>
       /\ pc = "Failed"
       /\ NumInserts(calls) = 0
       /\ NumUploads(calls) = LogoCount + Len(cap.productImages)
       /\ \A i \in 1..Len(calls) : calls[i].op = "upload"
       /\ \A c \in inflight : c.orphan

\* C11, the steps: the step in which a product-image upload fails leaves every
\* sibling upload in flight (none is cancelled) and issues nothing; a sibling
\* that completes afterwards changes neither the attempt's state nor its
\* calls and effects.
C11_Siblings ==
  /\ (pc = "AwaitImages" /\ pc' = "Failed") =>
       /\ \A c \in inflight :
            (c.op = "image" /\ ~c.orphan /\ c.idx # settled'.idx) =>
              \E d \in inflight' : d.op = "image" /\ d.idx = c.idx /\ d.orphan
       /\ calls' = calls
  /\ (ImageFailed /\ inflight' # inflight /\ inflight' \subseteq inflight) =>
       /\ pc' = pc /\ calls' = calls /\ effects' = effects /\ settled' = settled
       /\ loading' = loading /\ location' = location

\* C11: the product-image uploads of an attempt are issued together and joined
\* all-or-nothing: when one fails the attempt is Failed and no insert is ever
\* issued, whatever the siblings did before or do later; the siblings still in
\* flight are not cancelled and no uploaded object is deleted.
C11_AllOrNothing == []C11_Joined /\ [][C11_Siblings]_vars

C11_Witness ==
  /\ ImageFailed /\ pc = "Failed" /\ Len(cap.productImages) = 3
  /\ cap.logoFile # NoFile /\ logoUrl # EmptyUrl
  /\ \E i \in 1..3 : imageResults[i] # Pending
  /\ \E c \in inflight : c.op = "image" /\ c.orphan

Draft == <<formData, boxes, logoFile, productImages>>
CapDraft == <<cap.formData, cap.boxes, cap.logoFile, cap.productImages>>
IsPrefix(s, t) == Len(s) <= Len(t) /\ \A i \in 1..Len(s) : s[i] = t[i]

\* C12, the states: a Failed attempt has shown exactly one destructive "Error"
\* toast whose text is the message of the failed call, or the generic text when
\* that message is empty; it has not navigated and the form is still shown.
C12_Notified ==
  pc = "Failed" =>
    /\ settled.error /\ settled.op \in {"logo", "image", "insert"}
    /\ effects = <<[kind |-> "toast", title |-> "Error", variant |-> "destructive",
                    description |->
                      IF settled.message # "" THEN settled.message
                      ELSE "Failed to list business. Please try again."]>>
    /\ location = "form"

\* C12, the steps: the step into Failed changes no part of the draft and
\* issues no call; while the attempt stays Failed no call is issued; a submit
\* of the untouched draft by the same identity issues calls that the failed
\* attempt issued too, in the same order.
C12_Frame ==
  /\ (pc \in InFlight /\ pc' = "Failed") =>
       /\ Draft' = Draft /\ user' = user
       /\ calls' = calls /\ location' = location
       /\ \A c \in inflight' : c.orphan
  /\ (pc = "Failed" /\ pc' = "Failed") => (calls' = calls /\ effects' = effects)
  /\ (pc = "Failed" /\ pc' \in InFlight /\ Draft = CapDraft /\ user = cap.user) =>
       (cap' = cap /\ calls' # <<>> /\ IsPrefix(calls', calls))

\* C12: a failed attempt shows the failure toast with the backend's message or
\* the generic text, navigates nowhere and leaves the draft as it was, so that
\* a re-submit sends the same data; nothing is re-issued without a submit.
C12_FailureKeepsDraft == []C12_Notified /\ [][C12_Frame]_vars

C12_Witness ==
  /\ pc = "Failed" /\ settled.op = "insert" /\ settled.message = ""
  /\ cap.formData.name = "x" /\ cap.logoFile # NoFile
  /\ Draft = CapDraft /\ location = "form"

\* the attempts that are Uploading or Inserting: the handler runs that still
\* wait for a call
Running == {c \in inflight : ~c.orphan}

\* C13, the states: the busy flag is up exactly while the attempt is Uploading
\* or Inserting; what is awaited then belongs to one attempt at one position
\* of its handler (the logo, or product images, or the insert), and nothing is
\* awaited otherwise.
C13_BusyWhileInFlight ==
  /\ loading <=> pc \in InFlight
  /\ pc = "AwaitLogo" => Cardinality(Running) = 1 /\ \A c \in Running : c.op = "logo"
  /\ pc = "AwaitImages" =>
       /\ \A c \in Running : c.op = "image"
       /\ Cardinality(Running) =
            Cardinality({i \in 1..Len(imageResults) : imageResults[i] = Pending})
  /\ pc = "AwaitInsert" => Cardinality(Running) = 1 /\ \A c \in Running : c.op = "insert"
  /\ pc \notin InFlight => Running = {}

\* C13, the steps: while an attempt is Uploading or Inserting no step starts
\* another one (the snapshot of the submit event stays, the call log only
\* grows, the attempt only moves forward), and the busy flag falls only in the
\* step that makes the attempt terminal.
C13_NoSecondAttempt ==
  /\ pc \in InFlight =>
       /\ cap' = cap
       /\ IsPrefix(calls, calls')
       /\ pc' \in CASE pc = "AwaitLogo" ->
                        {"AwaitLogo", "AwaitImages", "AwaitInsert", "Failed"}
                   [] pc = "AwaitImages" -> {"AwaitImages", "AwaitInsert", "Failed"}
                   [] OTHER -> {"AwaitInsert", "Succeeded", "Failed"}
       /\ pc' = "AwaitLogo" => Running' = Running
  /\ (loading /\ ~loading') => (pc \in InFlight /\ pc' \in Terminal)
  /\ (~loading /\ loading') => (pc \notin InFlight /\ pc' \in InFlight)

\* C13: the submit control is disabled while an attempt is Uploading or
\* Inserting, so at most one attempt of the screen is in flight at any moment
\* and the control is enabled again only once that attempt is terminal.
C13_OneAttempt == []C13_BusyWhileInFlight /\ [][C13_NoSecondAttempt]_vars

C13_Witness ==
  /\ pc = "AwaitImages" /\ loading /\ inputs > 0
  /\ \E c \in inflight : c.orphan
  /\ Cardinality(Running) = 2

\* C14, the states: a terminal attempt has the busy flag down (the submit
\* control is enabled again), whichever of the three outcomes it is, and
\* waits for nothing.
C14_TerminalIdle ==
  pc \in Terminal => (~loading /\ Running = {})

\* C14, the steps: a submit event puts the attempt into Blocked or in flight;
\* a terminal attempt changes only by a new submit event, and until then its
\* calls, effects and busy flag stay as they are.
C14_TerminalStays ==
  /\ (pc \notin InFlight /\ pc' # pc) =>
       /\ pc' \in InFlight \cup {"Blocked"}
       /\ settled' = NoneSettled
       /\ cap' = [user |-> user, formData |-> formData, logoFile |-> logoFile,
                   productImages |-> productImages, boxes |-> boxes]
  /\ (pc \in Terminal /\ pc' = pc /\ settled' = settled) =>
       (calls' = calls /\ effects' = effects /\ loading' = loading /\
        location' = location /\ Running' = Running)
  /\ (pc \in Terminal /\ settled' # settled) => pc' \in InFlight \cup {"Blocked"}

\* C14: with a backend that resolves every call, an attempt in flight reaches
\* Succeeded or Failed (a submit without identity is Blocked at once); in the
\* terminal state the busy flag is down, and the attempt makes no transition
\* and no call until the next submit event.
C14_Terminates ==
  /\ (pc \in InFlight) ~> (pc \in Terminal)
  /\ []C14_TerminalIdle
  /\ [][C14_TerminalStays]_vars

C14_Witness ==
  /\ pc = "Failed" /\ settled.op = "image" /\ ~loading
  /\ Len(cap.productImages) = 3 /\ cap.logoFile # NoFile
  /\ inflight = {}

\* C15: when every product-image upload of an attempt succeeded, the
\* product_images of the insert payload has one URL per selected image, and
\* the URL at position i is the public URL of the path with index i - 1 and the
\* name of the i-th selected image, which is the path of the i-th product
\* upload of the call log, whatever the order in which the uploads completed.
C15_UrlsInSelectionOrder ==
  \A j \in 1..Len(calls) :
    (calls[j].op = "insert" /\ Len(cap.productImages) > 0) =>
      LET urls == calls[j].row.product_images IN
      /\ urls.k = "list"
      /\ Len(urls.v) = Len(cap.productImages)
      /\ \A i \in 1..Len(cap.productImages) :
           /\ urls.v[i] = [publicUrl |->
                            [dir |-> "products", uid |-> cap.user, index |-> i - 1,
                             name |-> cap.productImages[i]]]
           /\ calls[LogoCount + i].op = "upload"
           /\ calls[LogoCount + i].file = cap.productImages[i]
           /\ urls.v[i].publicUrl = calls[LogoCount + i].path

C15_Witness ==
  /\ pc = "AwaitInsert" /\ NumInserts(calls) = 1
  /\ Len(cap.productImages) = 3
  /\ settled.op = "image" /\ settled.idx = 1

\* C16, the states: every call of the attempt is built from the draft and the
\* identity of the submit event: the uploads carry its files under its
\* identity's paths, the insert row its identity as owner_id, its text fields
\* and its option list.
C16_BuiltFromSnapshot ==
  \A j \in 1..Len(calls) :
    /\ calls[j].op = "upload" =>
         /\ calls[j].path.uid = cap.user
         /\ calls[j].file = calls[j].path.name
         /\ calls[j].file \in {cap.logoFile} \cup Range(cap.productImages)
         /\ calls[j].file # NoFile
    /\ calls[j].op = "insert" =>
         LET row == calls[j].row IN
         /\ row.owner_id = Str(cap.user)
         /\ \A f \in RequiredFields : row[Column(f)] = Str(cap.formData[f])
         /\ \A f \in OptionalFields :
              IF cap.formData[f] = "" THEN row[Column(f)] \in {Null, Str("")}
              ELSE row[Column(f)] = Str(cap.formData[f])
         /\ row.business_options =
              IF cap.formData.options = <<>> THEN Null ELSE List(cap.formData.options)
         /\ (row.image_url = Null) <=> (cap.logoFile = NoFile)
         /\ (row.product_images = Null) <=> (cap.productImages = <<>>)

\* C16, the steps: while the attempt is in flight its snapshot stays; an edit,
\* a toggle, a file choice or a change of identity made then changes the
\* draft or the identity and nothing of the attempt; and the steps of the
\* attempt change nothing of the draft, so the edits are still there when it
\* has ended.
C16_EditsInFlight ==
  /\ pc \in InFlight => cap' = cap
  /\ (pc \in InFlight /\ <<Draft, user>>' # <<Draft, user>>) =>
       /\ pc' = pc /\ calls' = calls /\ inflight' = inflight
       /\ logoUrl' = logoUrl /\ imageResults' = imageResults
       /\ effects' = effects /\ loading' = loading
  /\ (pc \in InFlight /\ <<pc, calls, inflight>>' # <<pc, calls, inflight>>) =>
       <<Draft, user>>' = <<Draft, user>>

\* C16: the uploads and the insert payload of an attempt are built from the
\* draft and the identity as they were at the submit event; edits made while
\* the attempt is in flight change neither the uploaded files nor the payload
\* nor its owner_id, and they stay in the draft when the attempt has ended.
C16_SnapshotAtSubmit == []C16_BuiltFromSnapshot /\ [][C16_EditsInFlight]_vars

C16_Witness ==
  /\ pc = "Failed" /\ settled.op = "insert"
  /\ cap.logoFile # NoFile /\ cap.formData.name = ""
  /\ formData.name = "x"
  /\ \A row \in InsertRows(calls) : row.name = Str("")
====
